---- MODULE Spec2Model ----
(***************************************************************************)
(* A model of the spatiotemporal feature pipeline of the taxi demand       *)
(* forecaster: TaxiDataProcessor (loadRawCSV, processRawData, getRegionId, *)
(* aggregateData, createSequences, splitData, createScaler,                *)
(* generateFutureSequence).                                                *)
(*                                                                         *)
(* Conventions of the model                                                *)
(*  - a nullable field is <<>> (null) or <<v>> (set to v);                 *)
(*  - tensor elements are exact rationals [k |-> "num", n, d] in lowest    *)
(*    terms, or the IEEE specials "nan", "inf", "ninf" that a division by  *)
(*    zero yields; float32 rounding is not modelled;                       *)
(*  - coordinates and regionSize are in hundredths of a degree;            *)
(*  - strings are TLA+ strings, built and parsed character by character;   *)
(*  - in the pipeline the browser's time zone is UTC, so the local getters *)
(*    (getHours, getDay, getMonth, getDate, setDate) agree with            *)
(*    toISOString; the future labels are also computed in other zones.     *)
(***************************************************************************)
EXTENDS Integers, Sequences, FiniteSets, TLC

\* The fields of the TaxiDataProcessor; `probe` holds the arguments and
\* results of the pure functions when they are exercised on their own.
VARIABLES rawData, processedData, aggregatedData, sequences, trainData,
          testData, featureScaler, targetScaler, probe

vars == <<rawData, processedData, aggregatedData, sequences, trainData,
          testData, featureScaler, targetScaler, probe>>

procVars == <<rawData, processedData, aggregatedData, sequences, trainData,
              testData, featureScaler, targetScaler>>

(***************************************************************************)
(* Nullable values                                                         *)
(***************************************************************************)
Null == <<>>

Some(v) == <<v>>

IsNull(x) == x = <<>>

Val(x) == x[1]

(***************************************************************************)
(* Numbers of a tensor                                                     *)
(***************************************************************************)
Abs(n) == IF n < 0 THEN -n ELSE n

RECURSIVE Gcd(_, _)
Gcd(a, b) == IF b = 0 THEN a ELSE Gcd(b, a % b)

NaN == [k |-> "nan", n |-> 0, d |-> 1]

PosInf == [k |-> "inf", n |-> 0, d |-> 1]

NegInf == [k |-> "ninf", n |-> 0, d |-> 1]

\* The number n/d (d # 0) in lowest terms with a positive denominator.
Rat(n, d) ==
    LET g == Gcd(Abs(n), Abs(d))
        s == IF d < 0 THEN -1 ELSE 1
    IN  [k |-> "num", n |-> (s * n) \div g, d |-> (s * d) \div g]

Num(n) == Rat(n, 1)

IsNum(x) == x.k = "num"

Sign(x) ==
    CASE x.k = "inf" -> 1
      [] x.k = "ninf" -> -1
      [] x.k = "nan" -> 0
      [] OTHER -> IF x.n > 0 THEN 1 ELSE IF x.n < 0 THEN -1 ELSE 0

Neg(x) ==
    CASE x.k = "inf" -> NegInf
      [] x.k = "ninf" -> PosInf
      [] x.k = "nan" -> NaN
      [] OTHER -> Rat(-x.n, x.d)

\* IEEE addition.
Add(x, y) ==
    CASE x.k = "nan" \/ y.k = "nan" -> NaN
      [] IsNum(x) /\ IsNum(y) -> Rat(x.n * y.d + y.n * x.d, x.d * y.d)
      [] IsNum(x) -> y
      [] IsNum(y) -> x
      [] OTHER -> IF x.k = y.k THEN x ELSE NaN

Sub(x, y) == Add(x, Neg(y))

\* IEEE multiplication (0 times an infinity is NaN).
Mul(x, y) ==
    CASE x.k = "nan" \/ y.k = "nan" -> NaN
      [] IsNum(x) /\ IsNum(y) -> Rat(x.n * y.n, x.d * y.d)
      [] Sign(x) * Sign(y) = 0 -> NaN
      [] Sign(x) * Sign(y) > 0 -> PosInf
      [] OTHER -> NegInf

\* IEEE division (0/0 is NaN, x/0 is an infinity of x's sign).
Div(x, y) ==
    CASE x.k = "nan" \/ y.k = "nan" -> NaN
      [] IsNum(x) /\ IsNum(y) ->
            IF y.n # 0 THEN Rat(x.n * y.d, x.d * y.n)
            ELSE IF x.n = 0 THEN NaN
            ELSE IF x.n > 0 THEN PosInf ELSE NegInf
      [] IsNum(x) -> Num(0)
      [] IsNum(y) -> IF Sign(x) * (IF y.n < 0 THEN -1 ELSE 1) > 0
                     THEN PosInf ELSE NegInf
      [] OTHER -> NaN

\* x < y on numbers (false when either is NaN).
Less(x, y) ==
    CASE x.k = "nan" \/ y.k = "nan" -> FALSE
      [] IsNum(x) /\ IsNum(y) -> x.n * y.d < y.n * x.d
      [] OTHER -> Sign(x) < Sign(y) \/ (IsNum(x) /\ y.k = "inf")
                    \/ (x.k = "ninf" /\ IsNum(y))

(***************************************************************************)
(* Strings: decimal formatting and parsing                                 *)
(***************************************************************************)
DigitChar(n) ==
    CASE n = 0 -> "0" [] n = 1 -> "1" [] n = 2 -> "2" [] n = 3 -> "3"
      [] n = 4 -> "4" [] n = 5 -> "5" [] n = 6 -> "6" [] n = 7 -> "7"
      [] n = 8 -> "8" [] OTHER -> "9"

IsDigit(c) == c \in {"0", "1", "2", "3", "4", "5", "6", "7", "8", "9"}

DigitVal(c) ==
    CASE c = "0" -> 0 [] c = "1" -> 1 [] c = "2" -> 2 [] c = "3" -> 3
      [] c = "4" -> 4 [] c = "5" -> 5 [] c = "6" -> 6 [] c = "7" -> 7
      [] c = "8" -> 8 [] OTHER -> 9

RECURSIVE NatStr(_)
NatStr(n) == IF n < 10 THEN DigitChar(n)
             ELSE NatStr(n \div 10) \o DigitChar(n % 10)

\* `${n}` of an integer.
IntStr(n) == IF n < 0 THEN "-" \o NatStr(-n) ELSE NatStr(n)

\* n.toString().padStart(2, '0')
Pad2(n) == IF Len(IntStr(n)) < 2 THEN "0" \o IntStr(n) ELSE IntStr(n)

Pad4(n) ==
    LET s == IntStr(n)
    IN  CASE Len(s) = 1 -> "000" \o s
          [] Len(s) = 2 -> "00" \o s
          [] Len(s) = 3 -> "0" \o s
          [] OTHER -> s

AllDigits(s) == \A i \in 1..Len(s) : IsDigit(SubSeq(s, i, i))

RECURSIVE ParseNat(_)
ParseNat(s) ==
    IF Len(s) = 0 THEN 0
    ELSE 10 * ParseNat(SubSeq(s, 1, Len(s) - 1)) + DigitVal(SubSeq(s, Len(s), Len(s)))

(***************************************************************************)
(* Dates.  A Date object is [valid, day, hour]: day counts the days from   *)
(* 2023-12-31 (day 1 is 2024-01-01), hour is the hour of the day.  The     *)
(* calendar covers 2024 and the year after it.                             *)
(***************************************************************************)
IsLeap(y) == (y % 4 = 0 /\ y % 100 # 0) \/ y % 400 = 0

DaysInMonth(y, m) ==
    CASE m = 2 -> IF IsLeap(y) THEN 29 ELSE 28
      [] m \in {4, 6, 9, 11} -> 30
      [] OTHER -> 31

DaysInYear(y) == IF IsLeap(y) THEN 366 ELSE 365

RECURSIVE DaysBeforeMonth(_, _)
DaysBeforeMonth(y, m) ==
    IF m = 1 THEN 0 ELSE DaysBeforeMonth(y, m - 1) + DaysInMonth(y, m - 1)

RECURSIVE DaysBeforeYear(_)
DaysBeforeYear(y) ==
    IF y <= 2024 THEN 0 ELSE DaysBeforeYear(y - 1) + DaysInYear(y - 1)

\* The day number of the civil date y-m-d.
DayNumber(y, m, d) == DaysBeforeYear(y) + DaysBeforeMonth(y, m) + d

RECURSIVE YearOf(_, _)
YearOf(day, y) ==
    IF day <= DaysInYear(y) THEN y ELSE YearOf(day - DaysInYear(y), y + 1)

RECURSIVE MonthOf(_, _, _)
MonthOf(rest, y, m) ==
    IF rest <= DaysInMonth(y, m) THEN m
    ELSE MonthOf(rest - DaysInMonth(y, m), y, m + 1)

\* The civil date <<y, m, d>> of a day number.
Civil(day) ==
    LET y == YearOf(day, 2024)
        rest == day - DaysBeforeYear(y)
        m == MonthOf(rest, y, 1)
    IN  <<y, m, rest - DaysBeforeMonth(y, m)>>

InvalidDate == [valid |-> FALSE, day |-> 0, hour |-> 0]

\* date.toISOString().split('T')[0]
IsoDate(date) ==
    LET c == Civil(date.day)
    IN  Pad4(c[1]) \o "-" \o Pad2(c[2]) \o "-" \o Pad2(c[3])

\* Whether s starts with YYYY-MM-DD, a real month and day of the calendar.
IsDateText(s) ==
    /\ Len(s) >= 10
    /\ AllDigits(SubSeq(s, 1, 4)) /\ SubSeq(s, 5, 5) = "-"
    /\ AllDigits(SubSeq(s, 6, 7)) /\ SubSeq(s, 8, 8) = "-"
    /\ AllDigits(SubSeq(s, 9, 10))
    /\ ParseNat(SubSeq(s, 1, 4)) \in {2024, 2025}
    /\ ParseNat(SubSeq(s, 6, 7)) \in 1..12
    /\ ParseNat(SubSeq(s, 9, 10)) \in
          1..DaysInMonth(ParseNat(SubSeq(s, 1, 4)), ParseNat(SubSeq(s, 6, 7)))

IsTimeText(s) ==
    /\ Len(s) = 19
    /\ SubSeq(s, 11, 11) = " "
    /\ AllDigits(SubSeq(s, 12, 13)) /\ SubSeq(s, 14, 14) = ":"
    /\ AllDigits(SubSeq(s, 15, 16)) /\ SubSeq(s, 17, 17) = ":"
    /\ AllDigits(SubSeq(s, 18, 19))
    /\ ParseNat(SubSeq(s, 12, 13)) \in 0..23
    /\ ParseNat(SubSeq(s, 15, 16)) \in 0..59
    /\ ParseNat(SubSeq(s, 18, 19)) \in 0..59

\* new Date(s) for s = "YYYY-MM-DD" or "YYYY-MM-DD HH:MM:SS"; any other
\* text is an Invalid Date.
NewDate(s) ==
    IF IsDateText(s) /\ (Len(s) = 10 \/ IsTimeText(s))
    THEN [valid |-> TRUE,
          day |-> DayNumber(ParseNat(SubSeq(s, 1, 4)), ParseNat(SubSeq(s, 6, 7)),
                            ParseNat(SubSeq(s, 9, 10))),
          hour |-> IF Len(s) = 10 THEN 0 ELSE ParseNat(SubSeq(s, 12, 13))]
    ELSE InvalidDate

\* date.getDay(): 2024-01-01 (day 1) is a Monday.
GetDay(date) == date.day % 7

\* date.getMonth(), zero-based.
GetMonth(date) == Civil(date.day)[2] - 1

(***************************************************************************)
(* Decoded rows.  A field of a row (header: true, dynamicTyping: true) is  *)
(* null (absent or empty), a number or a text that is not a number.        *)
(***************************************************************************)
JNull == [t |-> "null", n |-> 0, s |-> ""]

JNum(n) == [t |-> "num", n |-> n, s |-> ""]

JStr(s) == [t |-> "str", n |-> 0, s |-> s]

\* JavaScript truthiness of a field.
Truthy(v) ==
    CASE v.t = "null" -> FALSE
      [] v.t = "num" -> v.n # 0
      [] OTHER -> v.s # ""

\* isNaN(v): no text of the rows converts to a number.
IsNaNjs(v) == v.t = "str" /\ v.s # ""

\* The filter of loadRawCSV.
isValid(row) ==
    /\ Truthy(row.pickup_datetime)
    /\ Truthy(row.pickup_longitude)
    /\ Truthy(row.pickup_latitude)
    /\ ~IsNaNjs(row.pickup_longitude)
    /\ ~IsNaNjs(row.pickup_latitude)

(***************************************************************************)
(* getRegionId                                                             *)
(***************************************************************************)
\* A variant that rounds toward zero.
CellOfTruncated(coordinate, regionSize) ==
    IF coordinate >= 0 THEN coordinate \div regionSize
    ELSE -((-coordinate) \div regionSize)

\* Math.floor(coordinate / regionSize), both in hundredths of a degree.
CellOf(coordinate, regionSize) == coordinate \div regionSize

getRegionId(longitude, latitude, regionSize) ==
    LET lonCell == CellOf(longitude, regionSize)
        latCell == CellOf(latitude, regionSize)
    IN  "region_" \o IntStr(lonCell) \o "_" \o IntStr(latCell)

(***************************************************************************)
(* processRawData                                                          *)
(***************************************************************************)
\* The trip of one row: <<trip>>, or <<>> when toISOString throws on an
\* Invalid Date and the catch returns null.
ProcessTrip(trip, regionSize) ==
    LET pickupDate == NewDate(trip.pickup_datetime.s)
    IN  IF ~pickupDate.valid THEN <<>>
        ELSE <<[timestamp |-> pickupDate,
                date |-> IsoDate(pickupDate),
                hour |-> pickupDate.hour,
                dayOfWeek |-> GetDay(pickupDate),
                month |-> GetMonth(pickupDate),
                region |-> getRegionId(trip.pickup_longitude.n,
                                       trip.pickup_latitude.n, regionSize),
                longitude |-> trip.pickup_longitude.n,
                latitude |-> trip.pickup_latitude.n,
                passenger_count |-> IF Truthy(trip.passenger_count)
                                    THEN trip.passenger_count.n ELSE 1]>>

\* rawData.map(...).filter(trip => trip !== null)
RECURSIVE ProcessTrips(_, _)
ProcessTrips(rows, regionSize) ==
    IF rows = <<>> THEN <<>>
    ELSE ProcessTrip(Head(rows), regionSize) \o ProcessTrips(Tail(rows), regionSize)

(***************************************************************************)
(* aggregateData                                                           *)
(***************************************************************************)
\* The composite key of a trip.
KeyOf(trip, aggregationLevel) ==
    IF aggregationLevel = "daily"
    THEN trip.date \o "_" \o trip.region
    ELSE trip.date \o "_" \o Pad2(trip.hour) \o "_" \o trip.region

NewBucket(trip) ==
    [date |-> trip.date,
     hour |-> trip.hour,
     region |-> trip.region,
     demand |-> 0,
     totalPassengers |-> 0,
     dayOfWeek |-> trip.dayOfWeek,
     month |-> trip.month,
     isWeekend |-> IF trip.dayOfWeek = 0 \/ trip.dayOfWeek = 6 THEN 1 ELSE 0]

\* One step of the forEach: groupedData is the sequence of <<key, bucket>>
\* in the order the keys were inserted.
AddTrip(groupedData, trip, aggregationLevel) ==
    LET key == KeyOf(trip, aggregationLevel)
        have == \E i \in 1..Len(groupedData) : groupedData[i][1] = key
        g == IF have THEN groupedData
             ELSE Append(groupedData, <<key, NewBucket(trip)>>)
        at == CHOOSE i \in 1..Len(g) : g[i][1] = key
    IN  [g EXCEPT ![at] = <<key, [g[at][2] EXCEPT
                                    !.demand = @ + 1,
                                    !.totalPassengers = @ + trip.passenger_count]>>]

RECURSIVE GroupTrips(_, _, _)
GroupTrips(groupedData, trips, aggregationLevel) ==
    IF trips = <<>> THEN groupedData
    ELSE GroupTrips(AddTrip(groupedData, Head(trips), aggregationLevel),
                    Tail(trips), aggregationLevel)

\* Object.values(groupedData)
ObjectValues(groupedData) == [i \in 1..Len(groupedData) |-> groupedData[i][2]]

\* The elements of s, each with the time new Date(element.date) of its date.
RECURSIVE WithTimes(_)
WithTimes(s) ==
    IF s = <<>> THEN <<>>
    ELSE <<<<NewDate(Head(s).date).day, Head(s)>>>> \o WithTimes(Tail(s))

\* One insertion of the stable sort: x goes after every element that does
\* not compare greater than it (new Date(a.date) - new Date(x.date) <= 0).
InsertByDate(sorted, x) ==
    LET before == {i \in 1..Len(sorted) : sorted[i][1] - x[1] <= 0}
        at == IF before = {} THEN 0
              ELSE CHOOSE i \in before : \A j \in before : j <= i
    IN  SubSeq(sorted, 1, at) \o <<x>> \o SubSeq(sorted, at + 1, Len(sorted))

RECURSIVE InsertionSort(_)
InsertionSort(s) ==
    IF s = <<>> THEN <<>>
    ELSE InsertByDate(InsertionSort(SubSeq(s, 1, Len(s) - 1)), s[Len(s)])

RECURSIVE WithoutTimes(_)
WithoutTimes(s) ==
    IF s = <<>> THEN <<>> ELSE <<Head(s)[2]>> \o WithoutTimes(Tail(s))

\* A variant that keeps the order in which the keys were first met.
InsertionOrder(s) == s

\* array.sort((a, b) => new Date(a.date) - new Date(b.date)), which is stable.
SortByDate(s) == WithoutTimes(InsertionSort(WithTimes(s)))

Aggregate(trips, aggregationLevel) ==
    SortByDate(ObjectValues(GroupTrips(<<>>, trips, aggregationLevel)))

(***************************************************************************)
(* createSequences                                                         *)
(***************************************************************************)
\* [...new Set(s)]: the distinct elements in the order of first appearance.
RECURSIVE Unique(_)
Unique(s) ==
    IF s = <<>> THEN <<>>
    ELSE LET u == Unique(SubSeq(s, 1, Len(s) - 1))
             x == s[Len(s)]
         IN  IF \E i \in 1..Len(u) : u[i] = x THEN u ELSE Append(u, x)

RegionsOf(data) == Unique([i \in 1..Len(data) |-> data[i].region])

\* aggregatedData.filter(d => d.region === region).sort(by date)
\* A variant that keeps the buckets of every region.
RegionDataUnfiltered(data, region) == SortByDate(data)

\* regionData of createSequences: the region's buckets, sorted by date.
RegionData(data, region) ==
    SortByDate(SelectSeq(data, LAMBDA d : d.region = region))

Max2(a, b) == IF a >= b THEN a ELSE b

\* The four feature channels of one bucket.
FeatureVector(b) ==
    <<Num(b.demand),
      Rat(b.dayOfWeek, 6),
      Num(b.isWeekend),
      Rat(b.totalPassengers, Max2(1, b.demand))>>

\* A variant whose window is shifted by one bucket and ends on the target.
RegionSamplesShifted(regionData, sequenceLength) ==
    IF Len(regionData) <= sequenceLength THEN <<>>
    ELSE [k \in 1..(Len(regionData) - sequenceLength) |->
            [sequence |-> [j \in 1..sequenceLength |->
                              FeatureVector(regionData[k + j])],
             target |-> Num(regionData[k + sequenceLength].demand),
             date |-> [date |-> regionData[k + sequenceLength].date,
                       region |-> regionData[k + sequenceLength].region]]]

\* The samples of one region: entry k is the loop's i = sequenceLength+k-1.
RegionSamples(regionData, sequenceLength) ==
    IF Len(regionData) <= sequenceLength THEN <<>>
    ELSE [k \in 1..(Len(regionData) - sequenceLength) |->
            [sequence |-> [j \in 1..sequenceLength |->
                              FeatureVector(regionData[k + j - 1])],
             target |-> Num(regionData[k + sequenceLength].demand),
             date |-> [date |-> regionData[k + sequenceLength].date,
                       region |-> regionData[k + sequenceLength].region]]]

\* regions.forEach(...): the samples of every region, region after region.
RECURSIVE AllSamples(_, _, _)
AllSamples(data, regions, sequenceLength) ==
    IF regions = <<>> THEN <<>>
    ELSE RegionSamples(RegionData(data, Head(regions)), sequenceLength)
           \o AllSamples(data, Tail(regions), sequenceLength)

\* A variant that lays the samples out in the order of their dates.
BuildSequencesByDate(data, sequenceLength) ==
    LET regions == RegionsOf(data)
        byRegion == AllSamples(data, regions, sequenceLength)
        sorted == SortByDate([i \in 1..Len(byRegion) |->
                                 [date |-> byRegion[i].date.date,
                                  sample |-> byRegion[i]]])
        samples == [i \in 1..Len(sorted) |-> sorted[i].sample]
    IN  [features |-> [i \in 1..Len(samples) |-> samples[i].sequence],
         targets |-> [i \in 1..Len(samples) |-> samples[i].target],
         dates |-> [i \in 1..Len(samples) |-> samples[i].date],
         regions |-> regions]

\* this.sequences of createSequences.
BuildSequences(data, sequenceLength) ==
    LET regions == RegionsOf(data)
        samples == AllSamples(data, regions, sequenceLength)
    IN  [features |-> [i \in 1..Len(samples) |-> samples[i].sequence],
         targets |-> [i \in 1..Len(samples) |-> samples[i].target],
         dates |-> [i \in 1..Len(samples) |-> samples[i].date],
         regions |-> regions]

(***************************************************************************)
(* createScaler and splitData                                              *)
(***************************************************************************)
RECURSIVE Flatten(_)
Flatten(ss) == IF ss = <<>> THEN <<>> ELSE Head(ss) \o Flatten(Tail(ss))

\* The elements of a rank-3 tensor, in order.
Flatten3(t) == Flatten(Flatten(t))

\* tensor.min() over all elements; NaN for a tensor without elements.
RECURSIVE TensorMin(_)
TensorMin(flat) ==
    IF flat = <<>> THEN NaN
    ELSE IF Len(flat) = 1 THEN flat[1]
    ELSE LET m == TensorMin(Tail(flat))
         IN  IF Less(m, Head(flat)) THEN m ELSE Head(flat)

\* tensor.max() over all elements; NaN for a tensor without elements.
RECURSIVE TensorMax(_)
TensorMax(flat) ==
    IF flat = <<>> THEN NaN
    ELSE IF Len(flat) = 1 THEN flat[1]
    ELSE LET m == TensorMax(Tail(flat))
         IN  IF Less(Head(flat), m) THEN m ELSE Head(flat)

\* createScaler(tensor), the tensor given by its elements.
createScaler(flat) == [min |-> TensorMin(flat), max |-> TensorMax(flat)]

\* A variant that divides by the maximum instead of the range.
NormalizeByMax(scaler, x) == Div(Sub(x, scaler.min), scaler.max)

\* scaler.normalize on one element: x.sub(min).div(max.sub(min))
NormalizeVal(scaler, x) == Div(Sub(x, scaler.min), Sub(scaler.max, scaler.min))

\* scaler.denormalize on one element: x.mul(max.sub(min)).add(min)
DenormalizeVal(scaler, x) == Add(Mul(x, Sub(scaler.max, scaler.min)), scaler.min)

Normalize1(scaler, t) == [i \in 1..Len(t) |-> NormalizeVal(scaler, t[i])]

Normalize3(scaler, t) ==
    [i \in 1..Len(t) |-> [j \in 1..Len(t[i]) |-> Normalize1(scaler, t[i][j])]]

Denormalize1(scaler, t) == [i \in 1..Len(t) |-> DenormalizeVal(scaler, t[i])]

\* A variant that rounds the train size up.
TrainSizeCeil(totalSamples, ratio) ==
    (totalSamples * ratio[1] + ratio[2] - 1) \div ratio[2]

\* trainSize of splitData: Math.floor(totalSamples * trainRatio).
TrainSize(totalSamples, ratio) == (totalSamples * ratio[1]) \div ratio[2]

\* A variant that keeps the normalized targets as originalTargets.
TestDataNormalizedOriginals(fScaler, tScaler, X_test, y_test, test_dates) ==
    [features |-> Normalize3(fScaler, X_test),
     targets |-> Normalize1(tScaler, y_test),
     dates |-> test_dates,
     originalTargets |-> Normalize1(tScaler, y_test)]

\* this.testData of splitData.
TestDataOf(fScaler, tScaler, X_test, y_test, test_dates) ==
    [features |-> Normalize3(fScaler, X_test),
     targets |-> Normalize1(tScaler, y_test),
     dates |-> test_dates,
     originalTargets |-> y_test]

\* A variant that fits both scalers on all samples, test partition included.
SplitFitOnAll(seqs, ratio) ==
    LET totalSamples == Len(seqs.features)
        trainSize == TrainSize(totalSamples, ratio)
        X_train == SubSeq(seqs.features, 1, trainSize)
        y_train == SubSeq(seqs.targets, 1, trainSize)
        X_test == SubSeq(seqs.features, trainSize + 1, totalSamples)
        y_test == SubSeq(seqs.targets, trainSize + 1, totalSamples)
        test_dates == SubSeq(seqs.dates, trainSize + 1, totalSamples)
        fScaler == createScaler(Flatten3(seqs.features))
        tScaler == createScaler(seqs.targets)
    IN  [featureScaler |-> fScaler,
         targetScaler |-> tScaler,
         trainData |-> [features |-> Normalize3(fScaler, X_train),
                        targets |-> Normalize1(tScaler, y_train)],
         testData |-> TestDataOf(fScaler, tScaler, X_test, y_test, test_dates)]

\* The fields splitData assigns.
Split(seqs, ratio) ==
    LET totalSamples == Len(seqs.features)
        trainSize == TrainSize(totalSamples, ratio)
        X_train == SubSeq(seqs.features, 1, trainSize)
        y_train == SubSeq(seqs.targets, 1, trainSize)
        X_test == SubSeq(seqs.features, trainSize + 1, totalSamples)
        y_test == SubSeq(seqs.targets, trainSize + 1, totalSamples)
        test_dates == SubSeq(seqs.dates, trainSize + 1, totalSamples)
        fScaler == createScaler(Flatten3(X_train))
        tScaler == createScaler(y_train)
    IN  [featureScaler |-> fScaler,
         targetScaler |-> tScaler,
         trainData |-> [features |-> Normalize3(fScaler, X_train),
                        targets |-> Normalize1(tScaler, y_train)],
         testData |-> TestDataOf(fScaler, tScaler, X_test, y_test, test_dates)]

(***************************************************************************)
(* generateFutureSequence                                                  *)
(***************************************************************************)
\* regionData.slice(-sequenceLength).map(day => [...])
BaseSequence(regionData, sequenceLength) ==
    LET lastSequence == SubSeq(regionData, Len(regionData) - sequenceLength + 1,
                               Len(regionData))
    IN  [j \in 1..sequenceLength |-> FeatureVector(lastSequence[j])]

\* The hours between 2023-12-31T00:00Z and the instant of a Date object.
Instant(date) == 24 * date.day + date.hour

\* The offset of local time from UTC at an instant, in hours, in three time
\* zones of the browser; daylight saving time as in 2024.
ZoneOffset(zone, instant) ==
    CASE zone = "Europe/Berlin" ->
            IF /\ instant >= 24 * DayNumber(2024, 3, 31) + 1
               /\ instant < 24 * DayNumber(2024, 10, 27) + 1
            THEN 2 ELSE 1
      [] zone = "America/New_York" ->
            IF /\ instant >= 24 * DayNumber(2024, 3, 10) + 7
               /\ instant < 24 * DayNumber(2024, 11, 3) + 6
            THEN -4 ELSE -5
      [] OTHER -> 0

\* The instant of a local time that the clock of the zone shows once (the
\* local times met here are never skipped or repeated by a clock change).
FromLocal(zone, local) ==
    CHOOSE instant \in (local - 2)..(local + 5) :
       instant + ZoneOffset(zone, instant) = local

\* futureDate = new Date(lastDate); futureDate.setDate(lastDate.getDate() + i):
\* the local calendar day moves by i, the local time of day stays.
SetDatePlus(zone, lastDate, i) ==
    LET local == Instant(lastDate) + ZoneOffset(zone, Instant(lastDate))
        instant == FromLocal(zone, local + 24 * i)
    IN  [valid |-> TRUE, day |-> instant \div 24, hour |-> instant % 24]

\* The labels of one region in a time zone, i = 1 .. daysToPredict.
RegionFutureDatesIn(zone, lastDate, region, daysToPredict) ==
    [i \in 1..daysToPredict |->
        [date |-> IsoDate(SetDatePlus(zone, lastDate, i)), region |-> region]]

\* The labels of one region where local time is UTC.
RegionFutureDates(lastDate, region, daysToPredict) ==
    RegionFutureDatesIn("UTC", lastDate, region, daysToPredict)

\* regions.forEach(...): <<futureSequences, futureDates.flat()>>.
RECURSIVE FutureOf(_, _, _, _, _)
FutureOf(data, regions, sequenceLength, lastDate, daysToPredict) ==
    IF regions = <<>> THEN <<<<>>, <<>>>>
    ELSE LET regionData == RegionData(data, Head(regions))
             rest == FutureOf(data, Tail(regions), sequenceLength, lastDate,
                              daysToPredict)
         IN  IF Len(regionData) < sequenceLength THEN rest
             ELSE <<<<BaseSequence(regionData, sequenceLength)>> \o rest[1],
                    RegionFutureDates(lastDate, Head(regions), daysToPredict)
                        \o rest[2]>>

(***************************************************************************)
(* The state machine.  A call that throws (or a load that is rejected)     *)
(* leaves the fields as the code has them at the throw.                    *)
(***************************************************************************)
Init ==
    /\ rawData = Null
    /\ processedData = Null
    /\ aggregatedData = Null
    /\ sequences = Null
    /\ trainData = Null
    /\ testData = Null
    /\ featureScaler = Null
    /\ targetScaler = Null
    /\ probe = Null

\* loadRawCSV(file): results is what the decoder hands to complete
\* ([failed |-> FALSE, data |-> rows]) or to error ([failed |-> TRUE]).
\* rawData is assigned before the check that rejects an empty selection.
loadRawCSV(results) ==
    /\ rawData' = IF results.failed \/ Len(results.data) = 0
                  THEN rawData
                  ELSE Some(SelectSeq(results.data, isValid))
    /\ UNCHANGED <<processedData, aggregatedData, sequences, trainData, testData,
                   featureScaler, targetScaler, probe>>

processRawData(aggregationLevel, regionSize) ==
    /\ processedData' = IF IsNull(rawData) \/ Len(Val(rawData)) = 0
                        THEN processedData
                        ELSE Some(ProcessTrips(Val(rawData), regionSize))
    /\ UNCHANGED <<rawData, aggregatedData, sequences, trainData, testData,
                   featureScaler, targetScaler, probe>>

aggregateData(aggregationLevel) ==
    /\ aggregatedData' = IF IsNull(processedData)
                         THEN aggregatedData
                         ELSE Some(Aggregate(Val(processedData), aggregationLevel))
    /\ UNCHANGED <<rawData, processedData, sequences, trainData, testData,
                   featureScaler, targetScaler, probe>>

createSequences(sequenceLength) ==
    /\ sequences' =
          IF IsNull(aggregatedData) \/ Len(Val(aggregatedData)) = 0
          THEN sequences
          ELSE LET built == BuildSequences(Val(aggregatedData), sequenceLength)
               IN  IF Len(built.features) = 0 THEN sequences ELSE Some(built)
    /\ UNCHANGED <<rawData, processedData, aggregatedData, trainData, testData,
                   featureScaler, targetScaler, probe>>

splitData(trainRatio) ==
    /\ IF IsNull(sequences)
       THEN UNCHANGED <<trainData, testData, featureScaler, targetScaler>>
       ELSE LET r == Split(Val(sequences), trainRatio)
            IN  /\ featureScaler' = Some(r.featureScaler)
                /\ targetScaler' = Some(r.targetScaler)
                /\ trainData' = Some(r.trainData)
                /\ testData' = Some(r.testData)
    /\ UNCHANGED <<rawData, processedData, aggregatedData, sequences, probe>>

\* What generateFutureSequence returns, <<>> when it throws: on missing
\* data, on an empty aggregatedData (aggregatedData[-1].date), when no region
\* qualifies, and on a null featureScaler (featureScaler.normalize).
FutureSequence(daysToPredict) ==
    IF IsNull(aggregatedData) \/ IsNull(sequences) THEN Null
    ELSE IF Len(Val(aggregatedData)) = 0 THEN Null
    ELSE LET data == Val(aggregatedData)
             sequenceLength == Len(Val(sequences).features[1])
             lastDate == NewDate(data[Len(data)].date)
             f == FutureOf(data, Val(sequences).regions, sequenceLength,
                           lastDate, daysToPredict)
         IN  IF Len(f[1]) = 0 \/ IsNull(featureScaler) THEN Null
             ELSE Some([features |-> Normalize3(Val(featureScaler), f[1]),
                        dates |-> f[2]])

\* What getDataSummary returns (dateRange and avgDemand left out).
getDataSummary ==
    [rawRecords |-> IF IsNull(rawData) THEN 0 ELSE Len(Val(rawData)),
     processedTrips |-> IF IsNull(processedData) THEN 0 ELSE Len(Val(processedData)),
     aggregatedRecords |-> IF IsNull(aggregatedData) THEN 0
                           ELSE Len(Val(aggregatedData)),
     sequences |-> IF IsNull(sequences) THEN 0 ELSE Len(Val(sequences).features),
     regions |-> IF IsNull(sequences) THEN 0 ELSE Len(Val(sequences).regions)]

\* generateFutureSequence assigns no field: it returns FutureSequence or throws.
generateFutureSequence(daysToPredict) ==
    /\ daysToPredict >= 1
    /\ UNCHANGED vars

\* What a stage throws in the current state, Null when it returns.  An Error
\* is thrown by the stage's own check; a TypeError by the runtime on a
\* property read of null or undefined.
Thrown(name, message) == Some([name |-> name, message |-> message])

processRawDataError ==
    IF IsNull(rawData) \/ Len(Val(rawData)) = 0
    THEN Thrown("Error", "No raw data loaded")
    ELSE Null

aggregateDataError ==
    IF IsNull(processedData)
    THEN Thrown("Error", "No processed data available")
    ELSE Null

createSequencesError(sequenceLength) ==
    IF IsNull(aggregatedData) \/ Len(Val(aggregatedData)) = 0
    THEN Thrown("Error", "No aggregated data available")
    ELSE IF Len(BuildSequences(Val(aggregatedData), sequenceLength).features) = 0
    THEN Thrown("Error",
                "No sequences could be created. Check sequence length and data size.")
    ELSE Null

splitDataError ==
    IF IsNull(sequences) THEN Thrown("Error", "No sequences created") ELSE Null

\* aggregatedData[aggregatedData.length - 1].date of an empty list and
\* this.featureScaler.normalize of a null scaler are property reads.
generateFutureSequenceError(daysToPredict) ==
    IF IsNull(aggregatedData) \/ IsNull(sequences)
    THEN Thrown("Error", "No data available for future prediction")
    ELSE IF Len(Val(aggregatedData)) = 0
    THEN Thrown("TypeError", "Cannot read properties of undefined (reading 'date')")
    ELSE LET data == Val(aggregatedData)
             f == FutureOf(data, Val(sequences).regions,
                           Len(Val(sequences).features[1]),
                           NewDate(data[Len(data)].date), daysToPredict)
         IN  IF Len(f[1]) = 0
             THEN Thrown("Error", "Could not generate future sequences")
             ELSE IF IsNull(featureScaler)
             THEN Thrown("TypeError",
                         "Cannot read properties of null (reading 'normalize')")
             ELSE Null

(***************************************************************************)
(* Inputs                                                                  *)
(***************************************************************************)
Row(datetime, longitude, latitude, passengers) ==
    [pickup_datetime |-> datetime,
     pickup_longitude |-> longitude,
     pickup_latitude |-> latitude,
     passenger_count |-> passengers]

\* Rows of one decoded file.
MaxRows == 4

\* Largest window width and forecast horizon tried.
MaxSeqLen == 2

MaxPredict == 1

\* Well-formed trips in two cells of the 0.05 degree grid, (-73.98, 40.75)
\* and (-73.91, 40.75): a Friday and a Saturday in the first cell, the
\* Friday at two hours, and the same two days in the second cell.
TripRows ==
    {Row(JStr("2024-05-31 10:15:00"), JNum(-7398), JNum(4075), JNull),
     Row(JStr("2024-05-31 09:40:00"), JNum(-7398), JNum(4075), JNum(3)),
     Row(JStr("2024-06-01 10:05:00"), JNum(-7398), JNum(4075), JNull),
     Row(JStr("2024-05-31 10:20:00"), JNum(-7391), JNum(4075), JNull),
     Row(JStr("2024-06-01 08:00:00"), JNum(-7391), JNum(4075), JNum(0))}

RECURSIVE SeqsUpTo(_, _)
SeqsUpTo(S, n) ==
    IF n = 0 THEN {<<>>}
    ELSE LET shorter == SeqsUpTo(S, n - 1)
         IN  shorter \cup {Append(s, x) : s \in {t \in shorter : Len(t) = n - 1}, x \in S}

Decoded(rows) == [failed |-> FALSE, data |-> rows]

DecodeError == [failed |-> TRUE, data |-> <<>>]

\* A file lists each trip once.
Distinct(s) == \A i, j \in 1..Len(s) : i # j => s[i] # s[j]

TripFiles ==
    {Decoded(rows) : rows \in {s \in SeqsUpTo(TripRows, MaxRows) : Distinct(s)}}
        \cup {DecodeError}

AggregationLevels == {"daily", "hourly"}

\* regionSize 0.05 (the default), in hundredths of a degree.
RegionSizes == {5}

\* trainRatio as <<numerator, denominator>>: 0.5 and 0.8 (the default).
TrainRatios == {<<1, 2>>, <<4, 5>>}

Next ==
    \/ IsNull(rawData) /\ \E results \in TripFiles : loadRawCSV(results)
    \/ \E level \in AggregationLevels, size \in RegionSizes : processRawData(level, size)
    \/ \E level \in AggregationLevels : aggregateData(level)
    \/ \E sequenceLength \in 1..MaxSeqLen : createSequences(sequenceLength)
    \/ \E trainRatio \in TrainRatios : splitData(trainRatio)
    \/ \E daysToPredict \in 1..MaxPredict : generateFutureSequence(daysToPredict)

Spec == Init /\ [][Next]_vars

(***************************************************************************)
(* Ingestion alone, on files that also hold malformed rows                 *)
(***************************************************************************)
\* Rows of one decoded file of the ingestion runs.
MaxIngestRows == 3

\* Two trips of one bucket, a trip on the zero meridian, and rows with an
\* unparseable or absent timestamp, a text longitude, an absent latitude.
IngestRows ==
    {Row(JStr("2024-05-31 10:15:00"), JNum(-7398), JNum(4075), JNull),
     Row(JStr("2024-05-31 10:40:00"), JNum(-7398), JNum(4075), JNum(2)),
     Row(JStr("2024-05-31 09:00:00"), JNum(0), JNum(5150), JNull),
     Row(JStr("yesterday"), JNum(-7398), JNum(4075), JNull),
     Row(JNull, JNum(-7398), JNum(4075), JNull),
     Row(JStr("2024-05-31 10:15:00"), JStr("west"), JNum(4075), JNull),
     Row(JStr("2024-05-31 10:15:00"), JNum(-7398), JNull, JNull)}

IngestFiles ==
    {Decoded(rows) : rows \in SeqsUpTo(IngestRows, MaxIngestRows)} \cup {DecodeError}

\* regionSize 0.05 and 0.1.
IngestRegionSizes == {5, 10}

NextIngest ==
    \/ IsNull(rawData) /\ \E results \in IngestFiles : loadRawCSV(results)
    \/ \E level \in AggregationLevels, size \in IngestRegionSizes :
          processRawData(level, size)
    \/ \E level \in AggregationLevels : aggregateData(level)

SpecIngest == Init /\ [][NextIngest]_vars

(***************************************************************************)
(* Loading again: a file may be selected after another was loaded          *)
(***************************************************************************)
\* Rows of one decoded file of the runs that load again.
MaxReloadRows == 2

ReloadFiles ==
    {Decoded(rows) : rows \in SeqsUpTo(IngestRows, MaxReloadRows)} \cup {DecodeError}

\* loadRawCSV rejects its promise: error is called, the decoded data are
\* empty, or no row is valid.
loadRawCSVRejects(results) ==
    \/ results.failed
    \/ Len(results.data) = 0
    \/ Len(SelectSeq(results.data, isValid)) = 0

NextReload ==
    \/ \E results \in ReloadFiles : loadRawCSV(results)
    \/ \E level \in AggregationLevels, size \in IngestRegionSizes :
          processRawData(level, size)

SpecReload == Init /\ [][NextReload]_vars

(***************************************************************************)
(* The layout of the samples: files with up to three days in each of two   *)
(* cells, so that a region can have two samples on each side of the split. *)
(***************************************************************************)
\* Three days in two cells, the cells alternating in first place.
LayoutTrips ==
    <<Row(JStr("2024-05-31 10:15:00"), JNum(-7398), JNum(4075), JNull),
      Row(JStr("2024-05-31 10:20:00"), JNum(-7391), JNum(4075), JNull),
      Row(JStr("2024-06-01 08:00:00"), JNum(-7391), JNum(4075), JNum(2)),
      Row(JStr("2024-06-01 10:05:00"), JNum(-7398), JNum(4075), JNull),
      Row(JStr("2024-06-02 11:00:00"), JNum(-7398), JNum(4075), JNull),
      Row(JStr("2024-06-02 12:30:00"), JNum(-7391), JNum(4075), JNull)>>

\* A file holds some of the trips, in their order.
LayoutFiles ==
    {Decoded(SelectSeq(LayoutTrips, LAMBDA row : row \in rows)) :
        rows \in SUBSET {LayoutTrips[i] : i \in 1..Len(LayoutTrips)}}

\* trainRatio 0.1, 0.5, 0.8 (the default) and 0.99.
LayoutRatios == {<<1, 10>>, <<1, 2>>, <<4, 5>>, <<99, 100>>}

\* The buckets are days.
LayoutLevels == {"daily"}

NextLayout ==
    \/ IsNull(rawData) /\ \E results \in LayoutFiles : loadRawCSV(results)
    \/ \E level \in LayoutLevels, size \in RegionSizes : processRawData(level, size)
    \/ \E level \in LayoutLevels : aggregateData(level)
    \/ \E sequenceLength \in 1..MaxSeqLen : createSequences(sequenceLength)
    \/ \E trainRatio \in LayoutRatios : splitData(trainRatio)

SpecLayout == Init /\ [][NextLayout]_vars

(***************************************************************************)
(* getRegionId on its own: probe holds two points, a regionSize and the    *)
(* ids computed so far.                                                    *)
(***************************************************************************)
NoData ==
    /\ rawData = Null
    /\ processedData = Null
    /\ aggregatedData = Null
    /\ sequences = Null
    /\ trainData = Null
    /\ testData = Null
    /\ featureScaler = Null
    /\ targetScaler = Null

\* Coordinates in hundredths of a degree, on both sides of zero.
Longitudes == {-12, -3, 0, 3, 1234, 1239, 1245}

Latitudes == {-1, 5678, 5679}

Points == Longitudes \X Latitudes

InitRegion ==
    /\ NoData
    /\ probe \in [points : Points \X Points, regionSize : {5, 10}, ids : {<<>>}]

\* One call of getRegionId, on the next point.
callGetRegionId ==
    /\ Len(probe.ids) < 2
    /\ LET point == probe.points[Len(probe.ids) + 1]
       IN  probe' = [probe EXCEPT !.ids =
                        Append(@, getRegionId(point[1], point[2], probe.regionSize))]
    /\ UNCHANGED procVars

NextRegion == callGetRegionId

SpecRegion == InitRegion /\ [][NextRegion]_vars

(***************************************************************************)
(* createScaler, normalize and denormalize on their own: probe holds an    *)
(* array, the scaler fit on it, an element and its two images.             *)
(***************************************************************************)
ScalerValues == {Rat(5, 6), Num(2), Num(4), Num(6), Num(8)}

\* Arrays of two rows and two channels.
ScalerArrays == {<<<<a, b>>, <<c, d>>>> : a \in ScalerValues, b \in ScalerValues,
                                          c \in ScalerValues, d \in ScalerValues}

InitScaler ==
    /\ NoData
    /\ probe \in [A : ScalerArrays, scaler : {Null}, x : {Null},
                  normalized : {Null}, denormalized : {Null}]

\* scaler = createScaler(A)
callCreateScaler ==
    /\ IsNull(probe.scaler)
    /\ probe' = [probe EXCEPT !.scaler = Some(createScaler(Flatten(probe.A)))]
    /\ UNCHANGED procVars

\* scaler.normalize on the element A[i][j]
callNormalize(i, j) ==
    /\ ~IsNull(probe.scaler) /\ IsNull(probe.normalized)
    /\ probe' = [probe EXCEPT !.x = Some(probe.A[i][j]),
                              !.normalized =
                                  Some(NormalizeVal(Val(probe.scaler), probe.A[i][j]))]
    /\ UNCHANGED procVars

\* scaler.denormalize on the normalized element
callDenormalize ==
    /\ ~IsNull(probe.normalized) /\ IsNull(probe.denormalized)
    /\ probe' = [probe EXCEPT !.denormalized =
                    Some(DenormalizeVal(Val(probe.scaler), Val(probe.normalized)))]
    /\ UNCHANGED procVars

NextScaler ==
    \/ callCreateScaler
    \/ \E i \in 1..2, j \in 1..2 : callNormalize(i, j)
    \/ callDenormalize

SpecScaler == InitScaler /\ [][NextScaler]_vars

(***************************************************************************)
(* The future labels on their own: probe holds the browser's time zone,    *)
(* the last observed date, the horizon and the labels computed.            *)
(***************************************************************************)
\* Largest horizon of the labels computed on their own.
MaxHorizon == 3

TimeZones == {"UTC", "Europe/Berlin", "America/New_York"}

\* Last observed dates, some of them shortly before a clock change.
LastDates == {"2024-03-08", "2024-03-09", "2024-03-29", "2024-03-30", "2024-05-31",
              "2024-10-25", "2024-11-01", "2024-12-30"}

InitFutureDates ==
    /\ NoData
    /\ probe \in [zone : TimeZones, lastDate : LastDates,
                  daysToPredict : 1..MaxHorizon, dates : {Null}]

\* The label loop of generateFutureSequence for one region.
callRegionFutureDates ==
    /\ IsNull(probe.dates)
    /\ probe' = [probe EXCEPT !.dates =
                    Some(RegionFutureDatesIn(probe.zone, NewDate(probe.lastDate),
                                             "region_0_0", probe.daysToPredict))]
    /\ UNCHANGED procVars

NextFutureDates == callRegionFutureDates

SpecFutureDates == InitFutureDates /\ [][NextFutureDates]_vars

(***************************************************************************)
(* The page: the button handlers of app.js on one TaxiDataProcessor and    *)
(* one TaxiDemandModel.  probe holds the rest of the page's state: the     *)
(* model, the handlers suspended at an await that the event loop can       *)
(* interleave with other handlers (the CSV decode, model.fit, tensor       *)
(* data()), the networks that were fit, and what the last evaluation and   *)
(* forecast displayed.  saveModel and loadModel assign nothing and are     *)
(* left out.                                                               *)
(***************************************************************************)
\* predictFuture asks for 7 days.
PredictDays == 7

\* Models created on one page.
MaxModels == 2

\* Handlers suspended at one time.
MaxSuspended == 1

\* Three days in the first cell, the third with two trips, and two days in
\* the second cell, the second with two passengers.
PageTrips ==
    <<Row(JStr("2024-05-31 10:15:00"), JNum(-7398), JNum(4075), JNull),
      Row(JStr("2024-06-01 10:05:00"), JNum(-7398), JNum(4075), JNull),
      Row(JStr("2024-06-02 11:00:00"), JNum(-7398), JNum(4075), JNull),
      Row(JStr("2024-06-02 12:30:00"), JNum(-7398), JNum(4075), JNull),
      Row(JStr("2024-05-31 10:20:00"), JNum(-7391), JNum(4075), JNull),
      Row(JStr("2024-06-01 08:00:00"), JNum(-7391), JNum(4075), JNum(2))>>

\* The file the user selects.
PageFiles == {Decoded(PageTrips)}

PageLevels == {"daily"}

PageSeqLens == {1}

\* The output of the network for one input window, then
\* targetScaler.denormalize: x.mul(max.sub(min)).add(min) is the same number
\* for every window when max = min.
PredictedValue(scaler, window) ==
    IF scaler.max = scaler.min
    THEN [ofWindow |-> <<>>, scaler |-> scaler]
    ELSE [ofWindow |-> window, scaler |-> scaler]

\* The number of suspended handlers.
Suspended ==
    Cardinality(probe.loads) + Cardinality(probe.fits)
       + Len(probe.evaluating) + Len(probe.predicting)

InitPage ==
    /\ NoData
    /\ probe = [model |-> Null, isTrained |-> FALSE, created |-> 0, fitted |-> {},
                loads |-> {}, fits |-> {}, evaluating |-> Null,
                predicting |-> Null, metrics |-> Null, table |-> Null]

\* loadRawData up to await dataProcessor.loadRawCSV(file).
pageLoadRawData(results) ==
    /\ Suspended < MaxSuspended
    /\ results \notin probe.loads
    /\ probe' = [probe EXCEPT !.loads = @ \cup {results}]
    /\ UNCHANGED procVars

\* The decoder calls complete or error; loadRawData resumes.
pageLoadComplete(results) ==
    /\ results \in probe.loads
    /\ rawData' = IF results.failed \/ Len(results.data) = 0
                  THEN rawData
                  ELSE Some(SelectSeq(results.data, isValid))
    /\ probe' = [probe EXCEPT !.loads = @ \ {results}]
    /\ UNCHANGED <<processedData, aggregatedData, sequences, trainData, testData,
                   featureScaler, targetScaler>>

\* The processRawData handler: processRawData, then aggregateData.
pageProcessRawData(aggregationLevel, regionSize) ==
    /\ IF IsNull(rawData) \/ Len(Val(rawData)) = 0
       THEN UNCHANGED <<processedData, aggregatedData>>
       ELSE LET trips == ProcessTrips(Val(rawData), regionSize)
            IN  /\ processedData' = Some(trips)
                /\ aggregatedData' = Some(Aggregate(trips, aggregationLevel))
    /\ UNCHANGED <<rawData, sequences, trainData, testData, featureScaler,
                   targetScaler, probe>>

\* prepareTrainingData: createSequences, then splitData.
pagePrepareTrainingData(sequenceLength, trainRatio) ==
    /\ LET built == BuildSequences(Val(aggregatedData), sequenceLength)
       IN  IF IsNull(aggregatedData) \/ Len(Val(aggregatedData)) = 0
              \/ Len(built.features) = 0
           THEN UNCHANGED <<sequences, trainData, testData, featureScaler,
                            targetScaler>>
           ELSE LET r == Split(built, trainRatio)
                IN  /\ sequences' = Some(built)
                    /\ featureScaler' = Some(r.featureScaler)
                    /\ targetScaler' = Some(r.targetScaler)
                    /\ trainData' = Some(r.trainData)
                    /\ testData' = Some(r.testData)
    /\ UNCHANGED <<rawData, processedData, aggregatedData, probe>>

\* The createModel handler and TaxiDemandModel.createModel: a new network
\* replaces the held one; isTrained is not assigned.
pageCreateModel ==
    /\ probe.created < MaxModels
    /\ ~IsNull(sequences)
    /\ probe' = [probe EXCEPT !.model = Some(probe.created + 1),
                              !.created = @ + 1]
    /\ UNCHANGED procVars

\* trainModel up to await this.model.fit(X_train, y_train): fit refuses a
\* network that is already being fit.
pageTrainModel ==
    /\ Suspended < MaxSuspended
    /\ ~IsNull(probe.model) /\ ~IsNull(trainData)
    /\ \A f \in probe.fits : f.model # Val(probe.model)
    /\ probe' = [probe EXCEPT !.fits =
                    @ \cup {[model |-> Val(probe.model),
                             features |-> Val(trainData).features]}]
    /\ UNCHANGED procVars

\* fit resolves: train sets isTrained and trainModel resumes.  fitted is
\* the set of the networks whose fit has resolved.
pageTrainComplete(f) ==
    /\ f \in probe.fits
    /\ probe' = [probe EXCEPT !.fits = @ \ {f}, !.isTrained = TRUE,
                              !.fitted = @ \cup {f.model}]
    /\ UNCHANGED procVars

\* evaluateModel up to the await of data() in calculateMAE: the error is
\* taken between the predictions for testData.features and
\* testData.originalTargets of this moment.
pageEvaluateModel ==
    /\ Suspended < MaxSuspended
    /\ probe.isTrained /\ ~IsNull(probe.model) /\ ~IsNull(testData)
    /\ IsNull(probe.evaluating)
    /\ probe' = [probe EXCEPT !.evaluating =
                    Some([model |-> Val(probe.model),
                          features |-> Val(testData).features,
                          originalTargets |-> Val(testData).originalTargets])]
    /\ UNCHANGED procVars

\* evaluateModel resumes and displays the error beside the size of the
\* testData of now.
pageEvaluateComplete ==
    /\ ~IsNull(probe.evaluating)
    /\ probe' = [probe EXCEPT
                    !.evaluating = Null,
                    !.metrics =
                        Some([errorOver |-> Val(probe.evaluating).originalTargets,
                              testSamples |-> Len(Val(testData).originalTargets)])]
    /\ UNCHANGED procVars

\* predictFuture up to await denormalizedFuture.data(): futureData and the
\* denormalized predictions, one per window, are locals of the handler.
pagePredictFuture ==
    /\ Suspended < MaxSuspended
    /\ probe.isTrained /\ ~IsNull(probe.model)
    /\ ~IsNull(FutureSequence(PredictDays))
    /\ IsNull(probe.predicting)
    /\ LET futureData == Val(FutureSequence(PredictDays))
       IN  probe' = [probe EXCEPT !.predicting =
                        Some([futureData |-> futureData,
                              futureValues |->
                                 [k \in 1..Len(futureData.features) |->
                                     PredictedValue(Val(targetScaler),
                                                    futureData.features[k])]])]
    /\ UNCHANGED procVars

\* The table of predictFuture: futureData.dates.forEach((dateObj, index) =>
\* a row when index < futureValues.length).
FutureRows(futureData, futureValues) ==
    LET shown == IF Len(futureData.dates) < Len(futureValues)
                 THEN Len(futureData.dates) ELSE Len(futureValues)
    IN  [index \in 1..shown |->
           [date |-> futureData.dates[index].date,
            region |-> futureData.dates[index].region,
            value |-> futureValues[index]]]

\* predictFuture resumes and displays the table.
pagePredictComplete ==
    /\ ~IsNull(probe.predicting)
    /\ probe' = [probe EXCEPT
                    !.predicting = Null,
                    !.table =
                        Some([futureData |-> Val(probe.predicting).futureData,
                              rows |-> FutureRows(Val(probe.predicting).futureData,
                                                  Val(probe.predicting).futureValues)])]
    /\ UNCHANGED procVars

NextPage ==
    \/ \E results \in PageFiles : pageLoadRawData(results)
    \/ \E results \in PageFiles : pageLoadComplete(results)
    \/ \E level \in PageLevels, size \in RegionSizes : pageProcessRawData(level, size)
    \/ \E sequenceLength \in PageSeqLens, trainRatio \in TrainRatios :
          pagePrepareTrainingData(sequenceLength, trainRatio)
    \/ pageCreateModel
    \/ pageTrainModel
    \/ \E f \in probe.fits : pageTrainComplete(f)
    \/ pageEvaluateModel
    \/ pageEvaluateComplete
    \/ pagePredictFuture
    \/ pagePredictComplete

SpecPage == InitPage /\ [][NextPage]_vars

(***************************************************************************)
(* The tensors of the processor: probe holds the tensors allocated and not *)
(* disposed, the tensors the fields hold, and the dispose calls made.  A   *)
(* tensor is named by the expression that allocates it and the number of   *)
(* the call; every tf operation returns a new tensor.  The data are left   *)
(* out: createSequences is a call that yields samples.                     *)
(***************************************************************************)
\* Calls on one processor before dispose().
MaxCalls == 5

Tensor(site, call) == [site |-> site, call |-> call]

\* normalize: (x) => x.sub(min).div(max.sub(min)) allocates x.sub(min),
\* max.sub(min) and the quotient, which it returns.
NormalizeAllocates(field, call) ==
    {Tensor(<<field, "x.sub(min)">>, call), Tensor(<<field, "max.sub(min)">>, call),
     Tensor(<<field, "div">>, call)}

NormalizeReturns(field, call) == Tensor(<<field, "div">>, call)

InitTensors ==
    /\ NoData
    /\ probe = [calls |-> 0, live |-> {}, disposeCalls |-> <<>>, disposed |-> FALSE,
                sequences |-> Null, trainData |-> Null, testData |-> Null,
                featureScaler |-> Null, targetScaler |-> Null]

\* createSequences, lines 200-205: tf.tensor3d(features), tf.tensor1d(targets).
tensorsCreateSequences ==
    /\ ~probe.disposed /\ probe.calls < MaxCalls
    /\ LET call == probe.calls + 1
           features == Tensor(<<"sequences.features">>, call)
           targets == Tensor(<<"sequences.targets">>, call)
       IN  probe' = [probe EXCEPT
                        !.calls = call,
                        !.live = @ \cup {features, targets},
                        !.sequences = Some([features |-> features,
                                            targets |-> targets])]
    /\ UNCHANGED procVars

\* splitData: four slices, min and max of X_train and of y_train, four
\* calls of normalize.
tensorsSplitData ==
    /\ ~probe.disposed /\ probe.calls < MaxCalls
    /\ ~IsNull(probe.sequences)
    /\ LET call == probe.calls + 1
           X_train == Tensor(<<"X_train">>, call)
           y_train == Tensor(<<"y_train">>, call)
           X_test == Tensor(<<"X_test">>, call)
           y_test == Tensor(<<"y_test">>, call)
           fScaler == [min |-> Tensor(<<"featureScaler.min">>, call),
                       max |-> Tensor(<<"featureScaler.max">>, call)]
           tScaler == [min |-> Tensor(<<"targetScaler.min">>, call),
                       max |-> Tensor(<<"targetScaler.max">>, call)]
       IN  probe' = [probe EXCEPT
                        !.calls = call,
                        !.live = @ \cup {X_train, y_train, X_test, y_test,
                                         fScaler.min, fScaler.max,
                                         tScaler.min, tScaler.max}
                                   \cup NormalizeAllocates("trainData.features", call)
                                   \cup NormalizeAllocates("trainData.targets", call)
                                   \cup NormalizeAllocates("testData.features", call)
                                   \cup NormalizeAllocates("testData.targets", call),
                        !.featureScaler = Some(fScaler),
                        !.targetScaler = Some(tScaler),
                        !.trainData =
                            Some([features |-> NormalizeReturns("trainData.features", call),
                                  targets |-> NormalizeReturns("trainData.targets", call)]),
                        !.testData =
                            Some([features |-> NormalizeReturns("testData.features", call),
                                  targets |-> NormalizeReturns("testData.targets", call),
                                  originalTargets |-> y_test])]
    /\ UNCHANGED procVars

\* generateFutureSequence, line 314: tf.tensor3d(futureSequences) and one
\* call of normalize; the quotient is returned to the caller.
\* this.featureScaler.normalize of a null scaler throws before tf.tensor3d.
tensorsGenerateFutureSequence ==
    /\ ~probe.disposed /\ probe.calls < MaxCalls
    /\ ~IsNull(probe.sequences) /\ ~IsNull(probe.featureScaler)
    /\ LET call == probe.calls + 1
       IN  probe' = [probe EXCEPT
                        !.calls = call,
                        !.live = @ \cup {Tensor(<<"futureSequences">>, call)}
                                   \cup NormalizeAllocates("future.features", call)]
    /\ UNCHANGED procVars

\* The tensors dispose() calls dispose on, in the order of the calls.
DisposeCalls ==
    (IF IsNull(probe.sequences) THEN <<>>
     ELSE <<Val(probe.sequences).features, Val(probe.sequences).targets>>)
    \o (IF IsNull(probe.trainData) THEN <<>>
        ELSE <<Val(probe.trainData).features, Val(probe.trainData).targets>>)
    \o (IF IsNull(probe.testData) THEN <<>>
        ELSE <<Val(probe.testData).features, Val(probe.testData).targets,
               Val(probe.testData).originalTargets>>)
    \o (IF IsNull(probe.featureScaler) THEN <<>>
        ELSE <<Val(probe.featureScaler).min, Val(probe.featureScaler).max>>)
    \o (IF IsNull(probe.targetScaler) THEN <<>>
        ELSE <<Val(probe.targetScaler).min, Val(probe.targetScaler).max>>)

\* dispose(): the fields keep their values.
tensorsDispose ==
    /\ ~probe.disposed
    /\ probe' = [probe EXCEPT
                    !.disposed = TRUE,
                    !.disposeCalls = DisposeCalls,
                    !.live = @ \ {DisposeCalls[i] : i \in 1..Len(DisposeCalls)}]
    /\ UNCHANGED procVars

NextTensors ==
    \/ tensorsCreateSequences
    \/ tensorsSplitData
    \/ tensorsGenerateFutureSequence
    \/ tensorsDispose

SpecTensors == InitTensors /\ [][NextTensors]_vars

(***************************************************************************)
(* Properties of createSequences                                           *)
(***************************************************************************)
\* The regions of the aggregated data, as a set.
RegionSet(data) == {data[i].region : i \in 1..Len(data)}

\* The buckets of one region in the order of the aggregated list, which
\* aggregateData leaves sorted by date.
BucketsOf(data, region) == SelectSeq(data, LAMBDA b : b.region = region)

\* The positions of the samples whose label names the region, ascending.
RECURSIVE SamplesOf(_, _, _)
SamplesOf(dates, region, from) ==
    IF from > Len(dates) THEN <<>>
    ELSE (IF dates[from].region = region THEN <<from>> ELSE <<>>)
            \o SamplesOf(dates, region, from + 1)

\* The time of a date text, in days.
TimeOf(dateText) == NewDate(dateText).day

\* A step in which createSequences(sequenceLength) assigned new sequences.
CreateStep(sequenceLength) ==
    createSequences(sequenceLength) /\ sequences' # sequences

\* C5 on one region: no sample below sequenceLength+1 buckets, else one
\* sample per index i = sequenceLength .. n-1, its window the buckets
\* i-sequenceLength .. i-1 in order and its target the demand of bucket i.
C5_RegionOk(data, seqs, region, sequenceLength) ==
    LET buckets == BucketsOf(data, region)
        n == Len(buckets)
        at == SamplesOf(seqs.dates, region, 1)
    IN  /\ Len(at) = IF n < sequenceLength + 1 THEN 0 ELSE n - sequenceLength
        /\ \A k \in 1..Len(at) :
              /\ Len(seqs.features[at[k]]) = sequenceLength
              /\ \A j \in 1..sequenceLength :
                    seqs.features[at[k]][j] = FeatureVector(buckets[k + j - 1])
              /\ seqs.targets[at[k]] = Num(buckets[k + sequenceLength].demand)

\* C5: every region of the aggregated data with n buckets contributes no
\* sample when n < sequenceLength+1 and otherwise exactly n-sequenceLength
\* samples, sample i having the region's date-sorted buckets
\* i-sequenceLength .. i-1 as window and the demand of bucket i as target.
C5_SamplesPerRegion ==
    [][\A sequenceLength \in 1..MaxSeqLen :
          CreateStep(sequenceLength) =>
             \A region \in RegionSet(Val(aggregatedData)) :
                C5_RegionOk(Val(aggregatedData), Val(sequences'), region,
                            sequenceLength)]_vars

\* The sequences are those of the aggregated data for window width 1.
C5_Fresh ==
    /\ ~IsNull(aggregatedData) /\ ~IsNull(sequences)
    /\ \A region \in RegionSet(Val(aggregatedData)) :
          C5_RegionOk(Val(aggregatedData), Val(sequences), region, 1)

\* A region with three buckets gave two samples and a region with one
\* bucket gave none.
C5_Witness ==
    /\ C5_Fresh
    /\ \E r1, r2 \in RegionSet(Val(aggregatedData)) :
          /\ Len(BucketsOf(Val(aggregatedData), r1)) = 3
          /\ Len(SamplesOf(Val(sequences).dates, r1, 1)) = 2
          /\ Len(BucketsOf(Val(aggregatedData), r2)) = 1
          /\ Len(SamplesOf(Val(sequences).dates, r2, 1)) = 0

\* C6 on one sample: its window and target are consecutive buckets of the
\* region its label names, and the label carries the target's date.
C6_SampleOk(data, seqs, i) ==
    LET region == seqs.dates[i].region
        buckets == BucketsOf(data, region)
        width == Len(seqs.features[i])
    IN  \E k \in 1..Len(buckets) :
           /\ k + width <= Len(buckets)
           /\ \A j \in 1..width :
                 seqs.features[i][j] = FeatureVector(buckets[k + j - 1])
           /\ seqs.targets[i] = Num(buckets[k + width].demand)
           /\ seqs.dates[i] = [date |-> buckets[k + width].date, region |-> region]

\* C6: the window and the target of every sample are buckets of one region,
\* dates[i] records that region with the target's date, and features,
\* targets and dates have the same length.
C6_OneRegionPerSample ==
    [][sequences' # sequences =>
          LET seqs == Val(sequences')
          IN  /\ Len(seqs.features) = Len(seqs.targets)
              /\ Len(seqs.targets) = Len(seqs.dates)
              /\ \A i \in 1..Len(seqs.dates) :
                    C6_SampleOk(Val(aggregatedData), seqs, i)]_vars

\* Two regions of the data each gave a sample.
C6_Witness ==
    /\ ~IsNull(aggregatedData) /\ ~IsNull(sequences)
    /\ \A i \in 1..Len(Val(sequences).dates) :
          C6_SampleOk(Val(aggregatedData), Val(sequences), i)
    /\ \E i, j \in 1..Len(Val(sequences).dates) :
          Val(sequences).dates[i].region # Val(sequences).dates[j].region

\* C1: for every sample createSequences produces, in daily and in hourly
\* aggregation and for any order of the rows, the date of the target bucket
\* is strictly later than the date of every bucket of the window.
C1_NoLookAhead ==
    [][\A sequenceLength \in 1..MaxSeqLen :
          CreateStep(sequenceLength) =>
             \A region \in RegionSet(Val(aggregatedData)) :
                LET regionData == RegionData(Val(aggregatedData), region)
                IN  \A i \in (sequenceLength + 1)..Len(regionData) :
                       \A j \in (i - sequenceLength)..(i - 1) :
                          TimeOf(regionData[j].date) < TimeOf(regionData[i].date)]_vars

(***************************************************************************)
(* Properties of splitData                                                 *)
(***************************************************************************)
\* A step in which splitData(trainRatio) ran on existing sequences.
SplitStep(trainRatio) == splitData(trainRatio) /\ ~IsNull(sequences)

\* floor(n * ratio) by its defining inequalities, ratio = ratio[1] / ratio[2].
FloorOf(n, ratio) ==
    CHOOSE t \in 0..n : t * ratio[2] <= n * ratio[1] /\ n * ratio[1] < (t + 1) * ratio[2]

\* The window of one sample, normalized with a scaler.
NormalizeWindow(scaler, window) ==
    [j \in 1..Len(window) |-> Normalize1(scaler, window[j])]

C7_SplitOk(seqs, train, test, fScaler, tScaler, trainRatio) ==
    LET n == Len(seqs.features)
        t == FloorOf(n, trainRatio)
    IN  /\ Len(train.features) = t /\ Len(train.targets) = t
        /\ Len(test.features) = n - t /\ Len(test.targets) = n - t
        /\ Len(train.features) + Len(test.features) = n
        /\ \A i \in 1..t :
              /\ train.features[i] = NormalizeWindow(fScaler, seqs.features[i])
              /\ train.targets[i] = NormalizeVal(tScaler, seqs.targets[i])
        /\ \A i \in 1..(n - t) :
              /\ test.features[i] = NormalizeWindow(fScaler, seqs.features[t + i])
              /\ test.targets[i] = NormalizeVal(tScaler, seqs.targets[t + i])
        /\ test.dates = SubSeq(seqs.dates, t + 1, n)

C8_OriginalTargets ==
    [][\A trainRatio \in TrainRatios :
          SplitStep(trainRatio) =>
             LET seqs == Val(sequences)
                 n == Len(seqs.targets)
             IN  Val(testData').originalTargets =
                    SubSeq(seqs.targets, FloorOf(n, trainRatio) + 1, n)]_vars

\* The test partition holds a target whose normalized value differs from
\* the original one kept beside it.
C8_Witness ==
    /\ ~IsNull(sequences) /\ ~IsNull(testData)
    /\ Len(Val(testData).originalTargets) >= 1
    /\ Val(testData).originalTargets # Val(testData).targets
    /\ \E trainRatio \in TrainRatios :
          LET n == Len(Val(sequences).targets)
          IN  Val(testData).originalTargets =
                 SubSeq(Val(sequences).targets, FloorOf(n, trainRatio) + 1, n)

\* m is the least element of a non-empty list of numbers.
IsLeast(m, flat) ==
    /\ \E i \in 1..Len(flat) : flat[i] = m
    /\ \A i \in 1..Len(flat) : ~Less(flat[i], m)

\* m is the greatest element of a non-empty list of numbers.
IsGreatest(m, flat) ==
    /\ \E i \in 1..Len(flat) : flat[i] = m
    /\ \A i \in 1..Len(flat) : ~Less(m, flat[i])

\* The scalers a split leaves are fit on the train samples alone, and both
\* partitions are normalized with them.
C2_SplitOk(seqs, train, test, fScaler, tScaler, trainRatio) ==
    LET n == Len(seqs.features)
        t == FloorOf(n, trainRatio)
        X_train == SubSeq(seqs.features, 1, t)
        y_train == SubSeq(seqs.targets, 1, t)
    IN  /\ t >= 1 =>
              /\ IsLeast(fScaler.min, Flatten3(X_train))
              /\ IsGreatest(fScaler.max, Flatten3(X_train))
              /\ IsLeast(tScaler.min, y_train)
              /\ IsGreatest(tScaler.max, y_train)
        /\ train.features = Normalize3(fScaler, X_train)
        /\ train.targets = Normalize1(tScaler, y_train)
        /\ test.features = Normalize3(fScaler, SubSeq(seqs.features, t + 1, n))
        /\ test.targets = Normalize1(tScaler, SubSeq(seqs.targets, t + 1, n))

\* The unnormalized windows of a forecast: the last buckets of every region
\* of the sequences that has enough of them.
C2_FutureWindows ==
    LET data == Val(aggregatedData)
        width == Len(Val(sequences).features[1])
        regions == SelectSeq(Val(sequences).regions,
                             LAMBDA r : Len(BucketsOf(data, r)) >= width)
    IN  [i \in 1..Len(regions) |->
           LET buckets == BucketsOf(data, regions[i])
           IN  [j \in 1..width |->
                  FeatureVector(buckets[Len(buckets) - width + j])]]

\* Every forecast input is normalized with the feature scaler of the split.
C2_FutureOk ==
    \A daysToPredict \in 1..MaxPredict :
       ~IsNull(FutureSequence(daysToPredict)) =>
          Val(FutureSequence(daysToPredict)).features =
             Normalize3(Val(featureScaler), C2_FutureWindows)

\* C2: after a successful splitData both scalers hold the global min and max
\* of the train partition only, train, test and every later
\* generateFutureSequence output are normalized with exactly those bounds,
\* and no operation other than splitData changes the scalers.
C2_ScalersFitOnTrain ==
    /\ [][/\ \A trainRatio \in TrainRatios :
                SplitStep(trainRatio) =>
                   C2_SplitOk(Val(sequences), Val(trainData'), Val(testData'),
                              Val(featureScaler'), Val(targetScaler'), trainRatio)
          /\ (featureScaler' # featureScaler \/ targetScaler' # targetScaler) =>
                \E trainRatio \in TrainRatios : SplitStep(trainRatio)]_vars
    /\ []C2_FutureOk

\* A split whose test partition holds a feature above the train maximum,
\* in a state where a forecast input exists.
C2_Witness ==
    /\ ~IsNull(sequences) /\ ~IsNull(trainData) /\ ~IsNull(testData)
    /\ \E trainRatio \in TrainRatios :
          /\ FloorOf(Len(Val(sequences).features), trainRatio) >= 1
          /\ C2_SplitOk(Val(sequences), Val(trainData), Val(testData),
                        Val(featureScaler), Val(targetScaler), trainRatio)
    /\ \E i \in 1..Len(Val(testData).features) :
          \E j \in 1..Len(Val(testData).features[i]) :
             \E c \in 1..4 : Less(Num(1), Val(testData).features[i][j][c])
    /\ ~IsNull(FutureSequence(1))

(***************************************************************************)
(* Properties of getRegionId                                               *)
(***************************************************************************)
\* floor(a / s) for s > 0, from the division of naturals.
GridFloor(a, s) == IF a >= 0 THEN a \div s ELSE -((-a + s - 1) \div s)

\* The two points of the probe lie in one cell of the grid.
SameCell ==
    LET a == probe.points[1]
        b == probe.points[2]
    IN  /\ GridFloor(a[1], probe.regionSize) = GridFloor(b[1], probe.regionSize)
        /\ GridFloor(a[2], probe.regionSize) = GridFloor(b[2], probe.regionSize)

\* C3: for every regionSize > 0 two coordinates get the same region id
\* exactly when floor(lon/regionSize) and floor(lat/regionSize) are both
\* equal, negative coordinates included; with regionSize 0.1, (12.34, 56.78)
\* and (12.39, 56.79) give region_123_567 and (12.45, 56.78) another id.
C3_SameIdIffSameCell ==
    /\ Len(probe.ids) = 2 => ((probe.ids[1] = probe.ids[2]) <=> SameCell)
    /\ getRegionId(1234, 5678, 10) = "region_123_567"
    /\ getRegionId(1239, 5679, 10) = "region_123_567"
    /\ getRegionId(1245, 5678, 10) # "region_123_567"

\* Both ids are computed for two points on the two sides of zero, which lie
\* in different cells and got different ids.
C3_Witness ==
    /\ Len(probe.ids) = 2
    /\ probe.points[1][1] < 0 /\ probe.points[2][1] > 0
    /\ probe.points[1][2] = probe.points[2][2]
    /\ -probe.regionSize < probe.points[1][1]
    /\ probe.points[2][1] < probe.regionSize
    /\ ~SameCell
    /\ probe.ids[1] # probe.ids[2]

(***************************************************************************)
(* Properties of createScaler                                              *)
(***************************************************************************)
\* The array of the probe has two different elements.
NotConstant ==
    \E i \in 1..4, j \in 1..4 : Less(Flatten(probe.A)[i], Flatten(probe.A)[j])

\* C9: for a scaler fit on an array A with min(A) < max(A), min and max are
\* the least and the greatest element of the whole array, normalize(min) = 0,
\* normalize(max) = 1 and denormalize(normalize(x)) = x for every x in A;
\* fit on [2,4,6,8] gives min 2, max 8, normalize(4) = 2/6 and back 4.
C9_ScalerRoundTrip ==
    /\ (NotConstant /\ ~IsNull(probe.scaler)) =>
          LET scaler == Val(probe.scaler)
          IN  /\ IsLeast(scaler.min, Flatten(probe.A))
              /\ IsGreatest(scaler.max, Flatten(probe.A))
              /\ NormalizeVal(scaler, scaler.min) = Num(0)
              /\ NormalizeVal(scaler, scaler.max) = Num(1)
              /\ (~IsNull(probe.normalized) /\ Val(probe.x) = scaler.min) =>
                    Val(probe.normalized) = Num(0)
              /\ (~IsNull(probe.normalized) /\ Val(probe.x) = scaler.max) =>
                    Val(probe.normalized) = Num(1)
              /\ ~IsNull(probe.denormalized) =>
                    Val(probe.denormalized) = Val(probe.x)
    /\ LET scaler == createScaler(<<Num(2), Num(4), Num(6), Num(8)>>)
       IN  /\ scaler = [min |-> Num(2), max |-> Num(8)]
           /\ NormalizeVal(scaler, Num(4)) = Rat(2, 6)
           /\ DenormalizeVal(scaler, NormalizeVal(scaler, Num(4))) = Num(4)

\* An element strictly between the bounds of a scaler fit on an array whose
\* two channels have different ranges went to the unit interval and back.
C9_Witness ==
    /\ ~IsNull(probe.denormalized)
    /\ probe.A[1][1] = Num(2) /\ probe.A[2][1] = Num(4)
    /\ probe.A[1][2] = Num(6) /\ probe.A[2][2] = Num(8)
    /\ Val(probe.x) = Num(4)
    /\ Val(probe.normalized) = Rat(1, 3)
    /\ Val(probe.denormalized) = Num(4)

(***************************************************************************)
(* Properties of loadRawCSV, processRawData and aggregateData              *)
(***************************************************************************)
\* The timestamp of the row is present and parseable, and its longitude and
\* latitude are present and numeric.
WellFormed(row) ==
    /\ row.pickup_datetime.t = "str"
    /\ NewDate(row.pickup_datetime.s).valid
    /\ row.pickup_longitude.t = "num"
    /\ row.pickup_latitude.t = "num"

\* C10: the rows kept by loadRawCSV are exactly the decoded rows whose
\* timestamp is present and parseable and whose longitude and latitude are
\* present and numeric, a coordinate equal to 0 included.
C10_KeepsWellFormedRows ==
    [][\A results \in IngestFiles :
          (loadRawCSV(results) /\ rawData' # rawData) =>
             Val(rawData') = SelectSeq(results.data, WellFormed)]_vars

\* The bucket has the key of the trip.
SameKey(bucket, trip, aggregationLevel) ==
    /\ bucket.date = trip.date
    /\ bucket.region = trip.region
    /\ aggregationLevel = "hourly" => bucket.hour = trip.hour

RECURSIVE SumDemand(_)
SumDemand(buckets) ==
    IF buckets = <<>> THEN 0 ELSE Head(buckets).demand + SumDemand(Tail(buckets))

\* C4: after loadRawCSV, processRawData and aggregateData every row that
\* survived validation contributes to exactly one bucket, the demand of
\* each bucket is the number of trips with its (date[, hour], region) key,
\* and the demands add up to the number of rows kept in rawData.
C4_DemandCountsKeptRows ==
    [][\A level \in AggregationLevels :
          (aggregateData(level) /\ aggregatedData' # aggregatedData) =>
             LET trips == Val(processedData)
                 buckets == Val(aggregatedData')
             IN  /\ \A i \in 1..Len(trips) :
                       Cardinality({b \in 1..Len(buckets) :
                                       SameKey(buckets[b], trips[i], level)}) = 1
                 /\ \A b \in 1..Len(buckets) :
                       buckets[b].demand =
                          Cardinality({i \in 1..Len(trips) :
                                          SameKey(buckets[b], trips[i], level)})
                 /\ SumDemand(buckets) = Len(Val(rawData))]_vars

(***************************************************************************)
(* Properties of sequences.regions and of generateFutureSequence           *)
(***************************************************************************)
\* The regions that contributed at least one sample.
UsedRegions(seqs) == {seqs.dates[i].region : i \in 1..Len(seqs.dates)}

\* C11: after createSequences, sequences.regions holds exactly the regions
\* that contributed at least one sample, a region skipped for having too
\* few buckets is not in it, and the summary's region count counts the
\* contributing regions only.
C11_RegionsAreUsedRegions ==
    ~IsNull(sequences) =>
       /\ {Val(sequences).regions[i] : i \in 1..Len(Val(sequences).regions)}
             = UsedRegions(Val(sequences))
       /\ getDataSummary.regions = Cardinality(UsedRegions(Val(sequences)))
\* C12, the labels: for a qualifying region generateFutureSequence(d) emits
\* d labels whose dates are the d consecutive calendar days following the
\* last observed date, all strictly later than every observed bucket date.
C12_LabelsAreNextDays ==
    ~IsNull(probe.dates) =>
       LET labels == Val(probe.dates)
           last == NewDate(probe.lastDate).day
       IN  /\ Len(labels) = probe.daysToPredict
           /\ \A i \in 1..Len(labels) :
                 /\ labels[i].date = IsoDate([valid |-> TRUE, day |-> last + i,
                                              hour |-> 0])
                 /\ TimeOf(labels[i].date) > last
\* C13: every row predictFuture displays pairs a region label with the
\* value predicted from that same region's window, for any number of
\* eligible regions (window k belongs to the region of the k-th block of
\* PredictDays labels).
C13_RowsPairRegionWithItsValue ==
    ~IsNull(probe.table) =>
       LET futureData == Val(probe.table).futureData
           rows == Val(probe.table).rows
       IN  \A i \in 1..Len(rows) :
              \E k \in 1..Len(futureData.features) :
                 /\ futureData.dates[(k - 1) * PredictDays + 1].region = rows[i].region
                 /\ rows[i].value = PredictedValue(rows[i].value.scaler,
                                                   futureData.features[k])

(***************************************************************************)
(* Properties of the stages' failures                                      *)
(***************************************************************************)
\* The error is one the stage throws itself, with one of the messages.
Names(error, messages) ==
    /\ ~IsNull(error)
    /\ Val(error).name = "Error"
    /\ Val(error).message \in messages

C15_NoMutationWhileSuspended ==
    [][/\ probe.loads \cap probe'.loads # {} => rawData' = rawData
       /\ probe.fits \cap probe'.fits # {}
             => trainData' = trainData /\ probe'.model = probe.model
       /\ ~IsNull(probe.evaluating) /\ ~IsNull(probe'.evaluating)
             => /\ testData' = testData
                /\ targetScaler' = targetScaler
                /\ probe'.model = probe.model
       /\ ~IsNull(probe.predicting) /\ ~IsNull(probe'.predicting)
             => /\ sequences' = sequences
                /\ featureScaler' = featureScaler
                /\ targetScaler' = targetScaler
                /\ probe'.model = probe.model]_vars

(***************************************************************************)
(* Properties of the tensors                                               *)
(***************************************************************************)
\* C16: after createSequences, splitData and generateFutureSequence calls
\* followed by dispose(), no tensor the processor allocated is live, except
\* the one generateFutureSequence returned to its caller, and dispose is
\* called on no tensor twice.
C16_AllTensorsReleased ==
    probe.disposed
       => /\ \A t \in probe.live : \E call \in 1..probe.calls :
                t = NormalizeReturns("future.features", call)
          /\ Distinct(probe.disposeCalls)

(***************************************************************************)
(* Properties of aggregateData                                             *)
(***************************************************************************)
\* A step in which aggregateData(aggregationLevel) returned a list.
AggregateStep(aggregationLevel) ==
    aggregateData(aggregationLevel) /\ ~IsNull(processedData)

\* The list is in ascending order of date, has one bucket at most for a key
\* of the level, and every bucket counts a trip at least and has the key of
\* a processed trip.
C17_ListOk(trips, list, aggregationLevel) ==
    /\ \A i, j \in 1..Len(list) : i < j => TimeOf(list[i].date) <= TimeOf(list[j].date)
    /\ \A i, j \in 1..Len(list) :
          (/\ list[i].date = list[j].date
           /\ list[i].region = list[j].region
           /\ aggregationLevel = "hourly" => list[i].hour = list[j].hour) => i = j
    /\ \A i \in 1..Len(list) :
          /\ list[i].demand >= 1
          /\ \E k \in 1..Len(trips) : SameKey(list[i], trips[k], aggregationLevel)

\* C17: the list aggregateData returns is sorted ascending by date, has at
\* most one bucket per (date[, hour], region) key, and has no bucket of
\* demand 0 nor a bucket for a key without trips.
C17_SortedOneBucketPerKey ==
    [][\A aggregationLevel \in AggregationLevels :
          AggregateStep(aggregationLevel) =>
             C17_ListOk(Val(processedData), Val(aggregatedData'), aggregationLevel)]_vars

\* Three trips or more whose first is of a later day than another, of which
\* two fall into one bucket, were aggregated into two buckets or more.
C17_Witness ==
    /\ ~IsNull(processedData) /\ ~IsNull(aggregatedData)
    /\ LET trips == Val(processedData)
           list == Val(aggregatedData)
       IN  /\ Len(trips) >= 3 /\ Len(list) >= 2
           /\ \E k \in 2..Len(trips) : TimeOf(trips[k].date) < TimeOf(trips[1].date)
           /\ \E i \in 1..Len(list) : list[i].demand >= 2
           /\ \E aggregationLevel \in AggregationLevels :
                 list = Aggregate(trips, aggregationLevel)

(***************************************************************************)
(* Properties of the fields taken together                                 *)
(***************************************************************************)
\* C18: whenever they are set, sequences are built from the current
\* aggregatedData, and trainData, testData and the scalers from the current
\* sequences.
C18_DerivedFromCurrentData ==
    /\ ~IsNull(sequences)
          => /\ ~IsNull(aggregatedData)
             /\ \E sequenceLength \in 1..MaxSeqLen :
                   Val(sequences) = BuildSequences(Val(aggregatedData), sequenceLength)
    /\ ~IsNull(trainData)
          => /\ ~IsNull(sequences)
             /\ \E trainRatio \in TrainRatios :
                   LET r == Split(Val(sequences), trainRatio)
                   IN  /\ Val(trainData) = r.trainData
                       /\ Val(testData) = r.testData
                       /\ Val(featureScaler) = r.featureScaler
                       /\ Val(targetScaler) = r.targetScaler

(***************************************************************************)
(* Properties of TaxiDemandModel                                           *)
(***************************************************************************)
\* predict and evaluate return instead of throwing 'Model not trained'.
PredictSucceeds == ~IsNull(probe.model) /\ probe.isTrained

\* C19: predict and evaluate succeed only if the network held now has
\* itself completed a train call.
C19_TrainedIsCurrentModel ==
    PredictSucceeds => Val(probe.model) \in probe.fitted

(***************************************************************************)
(* Properties of a rejected load                                           *)
(***************************************************************************)
\* C20: a loadRawCSV call that is rejected (decoder error, empty decode, no
\* valid row) leaves rawData as it was before the call.
C20_RejectedLoadKeepsRawData ==
    [][\A results \in ReloadFiles :
          (loadRawCSV(results) /\ loadRawCSVRejects(results)) => rawData' = rawData]_vars

(***************************************************************************)
(* Properties of the two partitions                                        *)
(***************************************************************************)
\* The regions of the samples at the positions from..to of the sequences.
RegionsAt(seqs, from, to) == {seqs.dates[i].region : i \in from..to}

\* C21: for a train ratio between 0 and 1 a successful splitData leaves one
\* sample at least in the test partition (trainSize <= N - 1), and one
\* region at most has samples in both the train and the test partition.
C21_TestKeepsASampleOneRegionShared ==
    [][\A trainRatio \in LayoutRatios :
          SplitStep(trainRatio) =>
             LET seqs == Val(sequences)
                 N == Len(seqs.features)
                 trainSize == Len(Val(trainData').features)
                 test == Val(testData')
             IN  /\ trainSize <= N - 1
                 /\ Len(test.features) = N - trainSize
                 /\ Len(test.features) >= 1
                 /\ test.dates = SubSeq(seqs.dates, trainSize + 1, N)
                 /\ Cardinality(RegionsAt(seqs, 1, trainSize)
                                   \cap RegionsAt(seqs, trainSize + 1, N)) <= 1]_vars

\* Four samples of two regions were split, two samples or more on the train
\* side, and a region has samples on both sides.
C21_Witness ==
    /\ ~IsNull(sequences) /\ ~IsNull(trainData) /\ ~IsNull(testData)
    /\ LET seqs == Val(sequences)
           N == Len(seqs.features)
           trainSize == Len(Val(trainData).features)
       IN  /\ N >= 4 /\ trainSize >= 2
           /\ Len(Val(testData).features) = N - trainSize
           /\ Val(testData).dates = SubSeq(seqs.dates, trainSize + 1, N)
           /\ Cardinality(RegionsAt(seqs, 1, N)) >= 2
           /\ RegionsAt(seqs, 1, trainSize) \cap RegionsAt(seqs, trainSize + 1, N) # {}

====
